---- MODULE Spec2Model ----
(***************************************************************************)
(* Model of feather's inventory packet handlers                            *)
(* (feather/server/src/packet_handlers/inventory.rs) and of the recipe     *)
(* registry (feather/datapacks/src/recipe.rs).                             *)
(*                                                                         *)
(* Spec          the click dispatcher, handle_click_window, over a Window  *)
(* SpecPaint     sequences of paint gestures through handle_click_window   *)
(* SpecCreative  handle_creative_inventory_action                          *)
(* SpecMatch     Ingredient::matches, ShapelessRecipe::matches and         *)
(*               SmithingRecipe::match_self on inputs drawn at the start   *)
(* SpecLoad      RecipeRegistry::add_from_dir and from_dir on a directory  *)
(* SpecQuery     the per-kind queries of a loaded RecipeRegistry           *)
(***************************************************************************)
EXTENDS Integers, Sequences, FiniteSets, TLC

VARIABLES
    slots,        \* Window: slot index -> stack (the backing inventories)
    cursor_item,  \* Window: the stack held on the cursor
    paint_state,  \* Window: Idle, or Painting{direction, touched slots}
    backing,      \* Window: which BackingWindow variant it wraps
    gamemode,     \* the player's Gamemode component
    pkt,          \* the packet the last handler call was given
    result,       \* what the last handler call returned: "none" | "ok" | "err"
    sent,         \* messages the last handler call sent to the client, in order
    events,       \* entity events the last handler call inserted
    invoked,      \* Window operations the last handler call invoked, in order
    gestures,     \* handler calls made so far
    before,       \* the Window as it was when the last handler call began
    registry,     \* RecipeRegistry: one list of recipes per kind, in load order
    tag_registry, \* TagRegistry: the items each tag names
    call          \* a call of a recipe function: its arguments and what it returned

winvars == <<slots, cursor_item, paint_state, backing, gamemode,
             pkt, result, sent, events, invoked, gestures, before>>

recvars == <<registry, tag_registry, call>>

vars == <<winvars, recvars>>

(***************************************************************************)
(* Bounds                                                                  *)
(***************************************************************************)
\* logical slot count of a window
NumSlots == 2
\* per-item maximum stack count
MaxStack == 2
\* most slots one paint session records
MaxTouched == 1
\* handler calls explored from each initial window
MaxGestures == 1
\* most alternatives of one Ingredient::Many
MaxAlternatives == 2
\* most items supplied to one shapeless match
MaxItems == 3
\* most entries of one recipe directory
MaxDirEntries == 2
\* longest sequence of paint gestures explored from an idle window
MaxPaintGestures == 3

(***************************************************************************)
(* Items and stacks                                                        *)
(***************************************************************************)
Items == {"stone", "diamond"}

\* `item.item as u32`: the numeric identity of an item kind
ItemId(item) == CASE item = "stone" -> 1 [] item = "diamond" -> 686 [] OTHER -> 0

\* Option<ItemStack>::None
Empty == [item |-> "none", count |-> 0]

ItemStack(item, count) == [item |-> item, count |-> count]

Stacks == {Empty} \cup {ItemStack(i, c) : i \in Items, c \in 1..MaxStack}

Min(a, b) == IF a < b THEN a ELSE b

\* `packet.slot as usize`: a negative i16 sign-extends to a huge index.
\* usize is 64 bits wide on the build targets; the model keeps 30 bits,
\* which is as far beyond every window size.
UsizeModulus == 2^30

AsUsize(s) == IF s < 0 THEN UsizeModulus + s ELSE s

\* `packet.action_number as i16`
AsI16(n) == IF (n % 65536) >= 32768 THEN (n % 65536) - 65536 ELSE n % 65536

(***************************************************************************)
(* Window (common::window).  Every operation returns a record: ok is FALSE *)
(* for an Err, and then the window fields are those before the call.       *)
(***************************************************************************)
Idle == [kind |-> "Idle", dir |-> "none", touched |-> <<>>]

Painting(dir, touched) == [kind |-> "Painting", dir |-> dir, touched |-> touched]

Win(s, c, p) == [slots |-> s, cursor |-> c, paint |-> p]

Ok(w, ret) == [ok |-> TRUE, w |-> w, ret |-> ret]

Err(w) == [ok |-> FALSE, w |-> w, ret |-> Empty]

InBounds(w, slot) == slot >= 0 /\ slot < Len(w.slots)

\* Window::item
item(w, slot) == IF InBounds(w, slot) THEN Ok(w, w.slots[slot + 1]) ELSE Err(w)

\* Window::cursor_item
cursor_of(w) == w.cursor

\* BackingWindow::set_item
set_item(w, slot, value) ==
    IF InBounds(w, slot)
    THEN Ok([w EXCEPT !.slots[slot + 1] = value], Empty)
    ELSE Err(w)

\* Window::left_click
left_click(w, slot) ==
    IF ~InBounds(w, slot) THEN Err(w)
    ELSE LET s == w.slots[slot + 1]
             c == w.cursor
         IN IF s # Empty /\ c # Empty /\ s.item = c.item
            THEN LET moved == Min(c.count, MaxStack - s.count)
                 IN Ok([w EXCEPT !.slots[slot + 1] = ItemStack(s.item, s.count + moved),
                                 !.cursor = IF c.count = moved THEN Empty
                                            ELSE ItemStack(c.item, c.count - moved)],
                       Empty)
            ELSE Ok([w EXCEPT !.slots[slot + 1] = c, !.cursor = s], Empty)

\* Window::right_click
right_click(w, slot) ==
    IF ~InBounds(w, slot) THEN Err(w)
    ELSE LET s == w.slots[slot + 1]
             c == w.cursor
         IN CASE c = Empty /\ s # Empty ->
                   LET half == (s.count + 1) \div 2
                   IN Ok([w EXCEPT !.cursor = ItemStack(s.item, half),
                                   !.slots[slot + 1] =
                                       IF s.count = half THEN Empty
                                       ELSE ItemStack(s.item, s.count - half)],
                         Empty)
              [] c # Empty /\ (s = Empty \/ (s.item = c.item /\ s.count < MaxStack)) ->
                   Ok([w EXCEPT !.slots[slot + 1] = ItemStack(c.item, s.count + 1),
                                !.cursor = IF c.count = 1 THEN Empty
                                           ELSE ItemStack(c.item, c.count - 1)],
                      Empty)
              [] OTHER -> Ok(w, Empty)

\* a slot that can take (part of) stack s: empty, or the same item and not full
Compatible(dest, s) ==
    dest = Empty \/ (dest.item = s.item /\ dest.count < MaxStack)

\* Window::shift_click
shift_click(w, slot) ==
    IF ~InBounds(w, slot) THEN Err(w)
    ELSE LET s == w.slots[slot + 1]
             dests == {d \in 1..Len(w.slots) :
                          d # slot + 1 /\ Compatible(w.slots[d], s)}
         IN IF s = Empty \/ dests = {} THEN Ok(w, Empty)
            ELSE LET d == CHOOSE x \in dests : \A y \in dests : x <= y
                     moved == Min(s.count, MaxStack - w.slots[d].count)
                 IN Ok([w EXCEPT !.slots[d] = ItemStack(s.item, w.slots[d].count + moved),
                                 !.slots[slot + 1] =
                                     IF s.count = moved THEN Empty
                                     ELSE ItemStack(s.item, s.count - moved)],
                       Empty)

\* Window::begin_left_mouse_paint
begin_left_mouse_paint(w) == Ok([w EXCEPT !.paint = Painting("even", <<>>)], Empty)

\* Window::begin_right_mouse_paint
begin_right_mouse_paint(w) == Ok([w EXCEPT !.paint = Painting("single", <<>>)], Empty)

InSeq(x, seq) == \E i \in 1..Len(seq) : seq[i] = x

\* Window::add_paint_slot
add_paint_slot(w, slot) ==
    IF w.paint.kind # "Painting" THEN Err(w)
    ELSE IF InSeq(slot, w.paint.touched) THEN Ok(w, Empty)
    ELSE Ok([w EXCEPT !.paint.touched = Append(@, slot)], Empty)

\* the touched slots that can take units of stack c, in touch order
RECURSIVE Eligible(_, _, _)
Eligible(w, touched, c) ==
    IF touched = <<>> THEN <<>>
    ELSE LET t == Head(touched)
             rest == Eligible(w, Tail(touched), c)
         IN IF InBounds(w, t) /\ Compatible(w.slots[t + 1], c)
            THEN <<t>> \o rest ELSE rest

\* place up to `per` units of the cursor stack into each target in turn
RECURSIVE Distribute(_, _, _)
Distribute(w, targets, per) ==
    IF targets = <<>> \/ w.cursor = Empty THEN w
    ELSE LET t == Head(targets)
             s == w.slots[t + 1]
             c == w.cursor
             n == Min(per, Min(c.count, MaxStack - s.count))
             placed == [w EXCEPT !.slots[t + 1] =
                                     IF n = 0 THEN s ELSE ItemStack(c.item, s.count + n),
                                 !.cursor = IF c.count = n THEN Empty
                                            ELSE ItemStack(c.item, c.count - n)]
         IN Distribute(placed, Tail(targets), per)

\* Window::end_paint
end_paint(w) ==
    IF w.paint.kind # "Painting" THEN Err(w)
    ELSE LET targets == IF w.cursor = Empty THEN <<>>
                        ELSE Eligible(w, w.paint.touched, w.cursor)
             per == IF w.paint.dir = "single" \/ targets = <<>> THEN 1
                    ELSE w.cursor.count \div Len(targets)
             done == Distribute(w, targets, per)
         IN Ok([done EXCEPT !.paint = Idle], Empty)

\* Window::drop_item
drop_item(w, slot) ==
    IF InBounds(w, slot)
    THEN Ok([w EXCEPT !.slots[slot + 1] = Empty], w.slots[slot + 1])
    ELSE Err(w)

(***************************************************************************)
(* Messages to the client and entity events                                *)
(***************************************************************************)
\* Client::confirm_window_action
confirm_window_action(window_id, action_number, accepted) ==
    [type |-> "confirm", window_id |-> window_id,
     action_number |-> action_number, accepted |-> accepted]

\* Client::set_slot
set_slot(slot, stack) == [type |-> "set_slot", slot |-> slot, item |-> stack]

\* Client::set_cursor_slot
set_cursor_slot(stack) == [type |-> "set_cursor_slot", item |-> stack]

\* Client::send_window_items
send_window_items(w) == [type |-> "window_items", items |-> w.slots]

\* DropItemEvent::new
DropItemEvent(id) == [event |-> "DropItemEvent", item |-> id]

(***************************************************************************)
(* handle_click_window                                                     *)
(***************************************************************************)
\* the block inserting the event whatever drop_item returned
DropPhase_EventAlways(w, p) ==
    IF p.mode = 4
    THEN LET r == drop_item(w, AsUsize(p.slot))
         IN [ok |-> r.ok, w |-> r.w, invoked |-> <<"drop_item">>,
             events |-> IF r.ok THEN <<DropItemEvent(ItemId(r.ret.item))>> ELSE <<>>]
    ELSE [ok |-> TRUE, w |-> w, invoked |-> <<>>, events |-> <<>>]

\* the `if let 4 = packet.mode` block
DropPhase(w, p) ==
    IF p.mode = 4
    THEN LET r == drop_item(w, AsUsize(p.slot))
         IN [ok |-> r.ok, w |-> r.w, invoked |-> <<"drop_item">>,
             events |-> IF r.ok /\ r.ret # Empty
                        THEN <<DropItemEvent(ItemId(r.ret.item))>> ELSE <<>>]
    ELSE [ok |-> TRUE, w |-> w, invoked |-> <<>>, events |-> <<>>]

Called(name, r) == [ok |-> r.ok, w |-> r.w, invoked |-> <<name>>]

Bail(w) == [ok |-> FALSE, w |-> w, invoked |-> <<>>]

\* the match with the add-paint-slot and end-paint buttons exchanged
Dispatch_AddEndSwapped(w, p) ==
    CASE p.mode = 0 ->
           (CASE p.button = 0 -> Called("left_click", left_click(w, AsUsize(p.slot)))
              [] p.button = 1 -> Called("right_click", right_click(w, AsUsize(p.slot)))
              [] OTHER -> Bail(w))
      [] p.mode = 1 -> Called("shift_click", shift_click(w, AsUsize(p.slot)))
      [] p.mode = 5 ->
           (CASE p.button = 0 -> Called("begin_left_mouse_paint", begin_left_mouse_paint(w))
              [] p.button = 4 -> Called("begin_right_mouse_paint", begin_right_mouse_paint(w))
              [] p.button \in {2, 6} ->
                   Called("add_paint_slot", add_paint_slot(w, AsUsize(p.slot)))
              [] p.button \in {1, 5} -> Called("end_paint", end_paint(w))
              [] OTHER -> Bail(w))
      [] OTHER -> Bail(w)

\* the `match packet.mode` block
Dispatch(w, p) ==
    CASE p.mode = 0 ->
           (CASE p.button = 0 -> Called("left_click", left_click(w, AsUsize(p.slot)))
              [] p.button = 1 -> Called("right_click", right_click(w, AsUsize(p.slot)))
              [] OTHER -> Bail(w))
      [] p.mode = 1 -> Called("shift_click", shift_click(w, AsUsize(p.slot)))
      [] p.mode = 5 ->
           (CASE p.button = 0 -> Called("begin_left_mouse_paint", begin_left_mouse_paint(w))
              [] p.button = 4 -> Called("begin_right_mouse_paint", begin_right_mouse_paint(w))
              [] p.button \in {1, 5} ->
                   Called("add_paint_slot", add_paint_slot(w, AsUsize(p.slot)))
              [] p.button \in {2, 6} -> Called("end_paint", end_paint(w))
              [] OTHER -> Bail(w))
      [] OTHER -> Bail(w)

\* Confirm with the cursor message sent ahead of the slot message
Confirm_CursorFirst(w, p) ==
    LET m1 == <<confirm_window_action(p.window_id, AsI16(p.action_number), TRUE)>>
        r == item(w, AsUsize(p.slot))
    IN IF p.slot >= 0
       THEN IF r.ok
            THEN [ok |-> TRUE,
                  sent |-> m1 \o <<set_cursor_slot(cursor_of(w)), set_slot(p.slot, r.ret),
                                   send_window_items(w)>>]
            ELSE [ok |-> FALSE, sent |-> m1]
       ELSE [ok |-> TRUE,
             sent |-> m1 \o <<set_cursor_slot(cursor_of(w)), send_window_items(w)>>]

\* the sends after the match
Confirm(w, p) ==
    LET m1 == <<confirm_window_action(p.window_id, AsI16(p.action_number), TRUE)>>
        r == item(w, AsUsize(p.slot))
        tail == <<set_cursor_slot(cursor_of(w)), send_window_items(w)>>
    IN IF p.slot >= 0
       THEN IF r.ok
            THEN [ok |-> TRUE, sent |-> m1 \o <<set_slot(p.slot, r.ret)>> \o tail]
            ELSE [ok |-> FALSE, sent |-> m1]
       ELSE [ok |-> TRUE, sent |-> m1 \o tail]

\* what the handler returns once the sends are done or have failed
Finish(d, m, c) ==
    [result |-> IF c.ok THEN "ok" ELSE "err", w |-> m.w, sent |-> c.sent,
     events |-> d.events, invoked |-> d.invoked \o m.invoked]

\* the handler from the match on, going on to the sends after a failed
\* operation
AfterDrop_IgnoresFailure(d, m, p) == Finish(d, m, Confirm(m.w, p))

\* the handler from the match on: a failed operation returns before any send
AfterDrop(d, m, p) ==
    IF ~m.ok
    THEN [result |-> "err", w |-> m.w, sent |-> <<>>,
          events |-> d.events, invoked |-> d.invoked \o m.invoked]
    ELSE Finish(d, m, Confirm(m.w, p))

\* the handler from the drop block on: a failed drop_item returns at once
FromDrop(d, p) ==
    IF ~d.ok
    THEN [result |-> "err", w |-> d.w, sent |-> <<>>,
          events |-> d.events, invoked |-> d.invoked]
    ELSE AfterDrop(d, Dispatch(d.w, p), p)

handle_click_window(w, p) == FromDrop(DropPhase(w, p), p)

(***************************************************************************)
(* Recipes (feather/datapacks/src/recipe.rs)                               *)
(***************************************************************************)
\* an absent Option<Item> or Option<NamespacedId> field
None == "none"

\* the item kinds recipes are written over
CatalogItems == {"glass", "wet_sponge", "tnt"}

\* Item::name
ItemName(i) ==
    CASE i = "glass" -> "minecraft:glass"
      [] i = "wet_sponge" -> "minecraft:wet_sponge"
      [] i = "tnt" -> "minecraft:tnt"
      [] OTHER -> "minecraft:air"

Tags == {"minecraft:sponges"}

\* a tag registry: the items each tag names
TagRegistries == [Tags -> SUBSET CatalogItems]

\* TagRegistry::check_item_tag
check_item_tag(reg, i, tag) == tag \in DOMAIN reg /\ i \in reg[tag]

Components == [item : CatalogItems \cup {None}, tag : Tags \cup {None}]

ItemOnly(i) == [item |-> i, tag |-> None]

TagOnly(t) == [item |-> None, tag |-> t]

\* RecipeComponent with both tests joined by "and"
RecipeComponent_matches_Both(c, i, reg) ==
    /\ (IF c.item # None THEN ItemName(i) = ItemName(c.item) ELSE FALSE)
    /\ (IF c.tag # None THEN check_item_tag(reg, i, c.tag) ELSE FALSE)

\* RecipeComponent::matches
RecipeComponent_matches(c, i, reg) ==
    \/ (IF c.item # None THEN ItemName(i) = ItemName(c.item) ELSE FALSE)
    \/ (IF c.tag # None THEN check_item_tag(reg, i, c.tag) ELSE FALSE)

\* Ingredient::One and Ingredient::Many
One(c) == [kind |-> "One", cs |-> <<c>>]

Many(cs) == [kind |-> "Many", cs |-> cs]

\* Ingredient::matches
Ingredient_matches(ing, i, reg) ==
    IF ing.kind = "One"
    THEN RecipeComponent_matches(ing.cs[1], i, reg)
    ELSE \E k \in 1..Len(ing.cs) : RecipeComponent_matches(ing.cs[k], i, reg)

\* Option<T>
Some(v) == <<v>>

Nothing == <<>>

\* the search looking at the first remaining alternative only
FirstMatch_HeadOnly(alts, i, reg) ==
    IF alts # <<>> /\ RecipeComponent_matches(alts[1], i, reg) THEN 1 ELSE 0

\* index of the first alternative that accepts item i, 0 when none does
FirstMatch(alts, i, reg) ==
    IF \E k \in 1..Len(alts) : RecipeComponent_matches(alts[k], i, reg)
    THEN CHOOSE k \in 1..Len(alts) :
             /\ RecipeComponent_matches(alts[k], i, reg)
             /\ \A j \in 1..(k - 1) : ~RecipeComponent_matches(alts[j], i, reg)
    ELSE 0

\* Vec::remove
Remove(seq, k) == SubSeq(seq, 1, k - 1) \o SubSeq(seq, k + 1, Len(seq))

\* the loop, ending in a test that every alternative was consumed
RECURSIVE ConsumeAll(_, _, _)
ConsumeAll(ingredient_items, items, reg) ==
    IF items = <<>> THEN ingredient_items = <<>>
    ELSE LET k == FirstMatch(ingredient_items, Head(items), reg)
         IN IF k = 0 THEN FALSE
            ELSE ConsumeAll(Remove(ingredient_items, k), Tail(items), reg)

\* the `for i in items` loop of ShapelessRecipe::matches
RECURSIVE ConsumeEach(_, _, _)
ConsumeEach(ingredient_items, items, reg) ==
    IF items = <<>> THEN TRUE
    ELSE LET k == FirstMatch(ingredient_items, Head(items), reg)
         IN IF k = 0 THEN FALSE
            ELSE ConsumeEach(Remove(ingredient_items, k), Tail(items), reg)

\* ShapelessRecipe::matches
ShapelessRecipe_matches(recipe, items, reg) ==
    ConsumeEach(recipe.ingredients.cs, items, reg)

\* ShapelessRecipe::match_self
ShapelessRecipe_match_self(recipe, items, reg) ==
    IF ShapelessRecipe_matches(recipe, items, reg) THEN Some(recipe.result) ELSE Nothing

\* SmithingRecipe::matches with the two positions exchanged
SmithingRecipe_matches_Swapped(recipe, base, addition, reg) ==
    Ingredient_matches(recipe.base, addition, reg)
        /\ Ingredient_matches(recipe.addition, base, reg)

\* SmithingRecipe::matches
SmithingRecipe_matches(recipe, base, addition, reg) ==
    Ingredient_matches(recipe.base, base, reg)
        /\ Ingredient_matches(recipe.addition, addition, reg)

\* SmithingRecipe::match_self
SmithingRecipe_match_self(recipe, base, addition, reg) ==
    IF SmithingRecipe_matches(recipe, base, addition, reg)
    THEN Some(recipe.result.item) ELSE Nothing

\* SmeltingRecipe::match_self
SmeltingRecipe_match_self(recipe, i, reg) ==
    IF Ingredient_matches(recipe.ingredient, i, reg)
    THEN Some(<<recipe.result, recipe.experience>>) ELSE Nothing

\* SmokingRecipe::match_self
SmokingRecipe_match_self(recipe, i, reg) ==
    IF Ingredient_matches(recipe.ingredient, i, reg)
    THEN Some(<<recipe.result, recipe.experience>>) ELSE Nothing

\* BlastingRecipe::match_self
BlastingRecipe_match_self(recipe, i, reg) ==
    IF Ingredient_matches(recipe.ingredient, i, reg)
    THEN Some(<<recipe.result, recipe.experience>>) ELSE Nothing

\* CampfireRecipe::match_self
CampfireRecipe_match_self(recipe, i, reg) ==
    IF Ingredient_matches(recipe.ingredient, i, reg)
    THEN Some(<<recipe.result, recipe.experience>>) ELSE Nothing

\* StonecuttingRecipe::match_self answering with a stack of one
StonecuttingRecipe_match_self_One(recipe, i, reg) ==
    IF Ingredient_matches(recipe.ingredient, i, reg)
    THEN Some([item |-> recipe.result, count |-> 1, damage |-> None])
    ELSE Nothing

\* StonecuttingRecipe::match_self
StonecuttingRecipe_match_self(recipe, i, reg) ==
    IF Ingredient_matches(recipe.ingredient, i, reg)
    THEN Some([item |-> recipe.result, count |-> recipe.count, damage |-> None])
    ELSE Nothing

\* RecipeRegistry::new
RecipeRegistry_new ==
    [blast |-> <<>>, camp |-> <<>>, shaped |-> <<>>, shapeless |-> <<>>,
     smelt |-> <<>>, smith |-> <<>>, smoke |-> <<>>, stone |-> <<>>]

\* Iterator::find_map over the outputs of match_self, recipe by recipe
RECURSIVE FirstSome(_)
FirstSome(outs) ==
    IF outs = <<>> THEN Nothing
    ELSE IF Head(outs) # Nothing THEN Head(outs)
    ELSE FirstSome(Tail(outs))

\* the last output that is not None
RECURSIVE LastSome(_)
LastSome(outs) ==
    IF outs = <<>> THEN Nothing
    ELSE IF LastSome(Tail(outs)) # Nothing THEN LastSome(Tail(outs))
    ELSE Head(outs)

\* RecipeRegistry::match_blasting
match_blasting(self, i, reg) ==
    FirstSome([k \in 1..Len(self.blast) |-> BlastingRecipe_match_self(self.blast[k], i, reg)])

\* RecipeRegistry::match_campfire_cooking
match_campfire_cooking(self, i, reg) ==
    FirstSome([k \in 1..Len(self.camp) |-> CampfireRecipe_match_self(self.camp[k], i, reg)])

\* RecipeRegistry::match_shapeless
match_shapeless(self, items, reg) ==
    FirstSome([k \in 1..Len(self.shapeless) |->
                  ShapelessRecipe_match_self(self.shapeless[k], items, reg)])

\* match_smelting answering with the last matching recipe
match_smelting_Last(self, i, reg) ==
    LastSome([k \in 1..Len(self.smelt) |-> SmeltingRecipe_match_self(self.smelt[k], i, reg)])

\* RecipeRegistry::match_smelting
match_smelting(self, i, reg) ==
    FirstSome([k \in 1..Len(self.smelt) |-> SmeltingRecipe_match_self(self.smelt[k], i, reg)])

\* RecipeRegistry::match_smithing
match_smithing(self, base, addition, reg) ==
    FirstSome([k \in 1..Len(self.smith) |->
                  SmithingRecipe_match_self(self.smith[k], base, addition, reg)])

\* RecipeRegistry::match_smoking
match_smoking(self, i, reg) ==
    FirstSome([k \in 1..Len(self.smoke) |-> SmokingRecipe_match_self(self.smoke[k], i, reg)])

\* RecipeRegistry::match_stonecutting
match_stonecutting(self, i, reg) ==
    FirstSome([k \in 1..Len(self.stone) |-> StonecuttingRecipe_match_self(self.stone[k], i, reg)])

(***************************************************************************)
(* Loading: a directory is a list of entries, each a file holding one      *)
(* descriptor.  An entry may fail to be listed, a file to be read, a       *)
(* descriptor to parse.                                                    *)
(***************************************************************************)
CookingTypes ==
    {"minecraft:blasting", "minecraft:campfire_cooking", "minecraft:smelting",
     "minecraft:smoking"}

\* the discriminators serde accepts for Recipe::Special: the variant's name
\* and its aliases
SpecialTypes ==
    {"Special", "minecraft:crafting_special_armordye", "minecraft:crafting_special_bannerduplicate",
     "minecraft:crafting_special_bookcloning", "minecraft:crafting_special_firework_rocket",
     "minecraft:crafting_special_firework_star",
     "minecraft:crafting_special_firework_star_fade",
     "minecraft:crafting_special_mapcloning", "minecraft:crafting_special_mapextending",
     "minecraft:crafting_special_repairitem", "minecraft:crafting_special_shielddecoration",
     "minecraft:crafting_special_shulkerboxcoloring", "minecraft:crafting_special_tippedarrow",
     "minecraft:crafting_special_suspiciousstew"}

\* default_smelting_time, default_smoking_time, default_blasting_time,
\* default_campfire_time
DefaultCookingTime(type) == IF type = "minecraft:smelting" THEN 200 ELSE 100

\* the field of Registry a recipe of this discriminator is pushed to
ListOf(type) ==
    CASE type = "minecraft:blasting" -> "blast"
      [] type = "minecraft:campfire_cooking" -> "camp"
      [] type = "minecraft:crafting_shaped" -> "shaped"
      [] type = "minecraft:crafting_shapeless" -> "shapeless"
      [] type = "minecraft:smelting" -> "smelt"
      [] type = "minecraft:smithing" -> "smith"
      [] type = "minecraft:smoking" -> "smoke"
      [] type = "minecraft:stonecutting" -> "stone"
      [] OTHER -> "none"

\* Recipe::from_raw: the descriptor's "type" selects the variant, a cooking
\* recipe without "cookingtime" gets its kind's default
Recipe_from_raw(raw) ==
    IF ~raw.wellformed THEN [ok |-> FALSE, list |-> "none", recipe |-> raw.body]
    ELSE IF raw.type \in SpecialTypes
    THEN [ok |-> TRUE, list |-> "none", recipe |-> raw.body]
    ELSE IF ListOf(raw.type) = "none"
    THEN [ok |-> FALSE, list |-> "none", recipe |-> raw.body]
    ELSE IF raw.type \in CookingTypes
    THEN [ok |-> TRUE, list |-> ListOf(raw.type),
          recipe |-> [raw.body EXCEPT !.cookingtime =
                         IF @ = Nothing THEN DefaultCookingTime(raw.type) ELSE @[1]]]
    ELSE [ok |-> TRUE, list |-> ListOf(raw.type), recipe |-> raw.body]

\* Recipe::from_file
Recipe_from_file(file) ==
    IF ~file.readable THEN [ok |-> FALSE, list |-> "none", recipe |-> file.raw.body]
    ELSE Recipe_from_raw(file.raw)

\* the body of the `for file in read_dir` loop, from the entry at hand on
RECURSIVE PushEach(_, _)
PushEach(self, entries) ==
    IF entries = <<>> THEN [ok |-> TRUE, reg |-> self]
    ELSE LET e == Head(entries)
             r == Recipe_from_file(e)
         IN IF ~e.listed \/ ~r.ok THEN [ok |-> FALSE, reg |-> self]
            ELSE IF r.list = "none" THEN PushEach(self, Tail(entries))
            ELSE PushEach([self EXCEPT ![r.list] = Append(@, r.recipe)], Tail(entries))

\* RecipeRegistry::add_from_dir
add_from_dir(self, dir) ==
    IF ~dir.readable THEN [ok |-> FALSE, reg |-> self]
    ELSE PushEach(self, dir.entries)

\* RecipeRegistry::from_dir
from_dir(dir) ==
    IF add_from_dir(RecipeRegistry_new, dir).ok
    THEN Some(add_from_dir(RecipeRegistry_new, dir).reg)
    ELSE Nothing

NoCall == [fn |-> "none", done |-> FALSE]

\* no recipe function is in use
NoRecipes ==
    /\ registry = RecipeRegistry_new
    /\ tag_registry = [t \in Tags |-> {}]
    /\ call = NoCall

\* no window is in use
NoWindow ==
    /\ slots = [i \in 1..NumSlots |-> Empty]
    /\ cursor_item = Empty
    /\ paint_state = Idle
    /\ backing = "Player"
    /\ gamemode = "Survival"
    /\ pkt = [window_id |-> 0, slot |-> -1, button |-> 0, mode |-> 0, action_number |-> 0]
    /\ result = "none"
    /\ sent = <<>>
    /\ events = <<>>
    /\ invoked = <<>>
    /\ gestures = 0
    /\ before = Win(slots, cursor_item, paint_state)

(***************************************************************************)
(* The click dispatcher as a state machine                                 *)
(***************************************************************************)
\* (window id, action number) pairs a client sends; 40000 does not fit an i16
PacketIds == {<<0, 1>>, <<1, 40000>>}

\* 2 stands for every mode the match sends to its `_` arm
Modes == {0, 1, 2, 4, 5}

Buttons == 0..6

\* -1 is "no slot"; NumSlots is the first index past the window
ClickPackets ==
    {[window_id |-> id[1], slot |-> s, button |-> b, mode |-> m, action_number |-> id[2]] :
        id \in PacketIds, s \in -1..NumSlots, b \in Buttons, m \in Modes}

NoPacket == [window_id |-> 0, slot |-> -1, button |-> 0, mode |-> 0, action_number |-> 0]

Window == Win(slots, cursor_item, paint_state)

\* windows a session has brought about before the gestures explored here:
\* the first two slots and the cursor hold what earlier clicks left there
InitSlots ==
    {[i \in 1..NumSlots |-> IF i = 1 THEN a ELSE IF i = 2 THEN b ELSE Empty] :
        a \in {ItemStack("stone", 1), ItemStack("diamond", MaxStack)},
        b \in {Empty, ItemStack("stone", 1)}}

InitCursors == {Empty, ItemStack("stone", MaxStack)}

InitPaints ==
    {Idle, Painting("even", <<>>), Painting("single", <<0>>), Painting("even", <<1>>)}

Quiet ==
    /\ pkt = NoPacket
    /\ result = "none"
    /\ sent = <<>>
    /\ events = <<>>
    /\ invoked = <<>>
    /\ gestures = 0

Init ==
    /\ slots \in InitSlots
    /\ cursor_item \in InitCursors
    /\ paint_state \in InitPaints
    /\ backing = "Player"
    /\ gamemode = "Survival"
    /\ before = Window
    /\ Quiet
    /\ NoRecipes

\* one call of handle_click_window on the player's Window
Handle(p) ==
    \E r \in {handle_click_window(Window, p)} :
       /\ Len(r.w.paint.touched) <= MaxTouched
       /\ before' = Window
       /\ slots' = r.w.slots
       /\ cursor_item' = r.w.cursor
       /\ paint_state' = r.w.paint
       /\ pkt' = p
       /\ result' = r.result
       /\ sent' = r.sent
       /\ events' = r.events
       /\ invoked' = r.invoked
       /\ gestures' = gestures + 1
       /\ UNCHANGED <<backing, gamemode, recvars>>

ClickWindow ==
    /\ gestures < MaxGestures
    /\ \E p \in ClickPackets : Handle(p)

Next == ClickWindow

Spec == Init /\ [][Next]_vars

(***************************************************************************)
(* Sequences of paint gestures on a window that starts idle                *)
(***************************************************************************)
PaintPackets ==
    {p \in ClickPackets : p.mode = 5 /\ p.window_id = 0 /\ p.action_number = 1}

InitPaint ==
    /\ slots \in InitSlots
    /\ cursor_item \in InitCursors
    /\ paint_state = Idle
    /\ backing = "Player"
    /\ gamemode = "Survival"
    /\ before = Window
    /\ Quiet
    /\ NoRecipes

PaintGesture ==
    /\ gestures < MaxPaintGestures
    /\ \E p \in PaintPackets : Handle(p)

NextPaint == PaintGesture

SpecPaint == InitPaint /\ [][NextPaint]_vars

(***************************************************************************)
(* handle_creative_inventory_action                                        *)
(***************************************************************************)
Gamemodes == {"Survival", "Creative", "Adventure", "Spectator"}

BackingWindows == {"Player", "Generic9x3"}

CreativeSet(w, p) ==
    [result |-> IF set_item(w, AsUsize(p.slot), p.clicked_item).ok THEN "ok" ELSE "err",
     w |-> set_item(w, AsUsize(p.slot), p.clicked_item).w,
     invoked |-> <<"set_item">>]

\* the handler without its check of the window's backing
handle_creative_inventory_action_AnyWindow(gm, bk, w, p) ==
    IF gm # "Creative"
    THEN [result |-> "err", w |-> w, invoked |-> <<>>]
    ELSE IF p.slot # -1 THEN CreativeSet(w, p)
    ELSE [result |-> "ok", w |-> w, invoked |-> <<>>]

\* the handler without its test for slot -1
handle_creative_inventory_action_NoSlotTest(gm, bk, w, p) ==
    IF gm # "Creative"
    THEN [result |-> "err", w |-> w, invoked |-> <<>>]
    ELSE IF bk # "Player"
    THEN [result |-> "err", w |-> w, invoked |-> <<>>]
    ELSE CreativeSet(w, p)

handle_creative_inventory_action(gm, bk, w, p) ==
    IF gm # "Creative"
    THEN [result |-> "err", w |-> w, invoked |-> <<>>]
    ELSE IF p.slot # -1
    THEN IF bk # "Player"
         THEN [result |-> "err", w |-> w, invoked |-> <<>>]
         ELSE CreativeSet(w, p)
    ELSE [result |-> "ok", w |-> w, invoked |-> <<>>]

CreativePackets == [slot : -2..NumSlots, clicked_item : Stacks]

InitCreative ==
    /\ slots \in [1..NumSlots -> Stacks]
    /\ cursor_item = Empty
    /\ paint_state = Idle
    /\ backing \in BackingWindows
    /\ gamemode \in Gamemodes
    /\ before = Window
    /\ Quiet
    /\ NoRecipes

CreativeInventoryAction ==
    /\ gestures < MaxGestures
    /\ \E p \in CreativePackets :
        \E r \in {handle_creative_inventory_action(gamemode, backing, Window, p)} :
           /\ before' = Window
           /\ slots' = r.w.slots
           /\ pkt' = p
           /\ result' = r.result
           /\ invoked' = r.invoked
           /\ gestures' = gestures + 1
           /\ UNCHANGED <<cursor_item, paint_state, backing, gamemode, sent, events, recvars>>

NextCreative == CreativeInventoryAction

SpecCreative == InitCreative /\ [][NextCreative]_vars

(***************************************************************************)
(* The matching functions, applied to arguments drawn at the start         *)
(***************************************************************************)
SeqsUpTo(S, n) == UNION {[1..k -> S] : k \in 0..n}

Ingredients(n) == {One(c) : c \in Components} \cup {Many(cs) : cs \in SeqsUpTo(Components, n)}

\* generated::ItemStack
ResultStack(i, count, damage) == [item |-> i, count |-> count, damage |-> damage]

ResultStacks == {ResultStack("tnt", 1, None), ResultStack("glass", 2, 3)}

IngredientCalls ==
    [fn : {"Ingredient::matches"}, ingredient : Ingredients(MaxAlternatives),
     item : CatalogItems, done : {FALSE}, ret : {FALSE}]

ShapelessCalls ==
    {[fn |-> "ShapelessRecipe::matches",
      recipe |-> [ingredients |-> ing, result |-> ResultStack("tnt", 1, None)],
      items |-> items, done |-> FALSE, ret |-> FALSE] :
        ing \in Ingredients(MaxAlternatives), items \in SeqsUpTo(CatalogItems, MaxItems)}

\* the ingredients of the smithing recipes tried: every single component,
\* and every component with tnt as a second alternative
SmithingIngredients ==
    {One(c) : c \in Components} \cup {Many(<<c, [item |-> "tnt", tag |-> None]>>) : c \in Components}

SmithingCalls ==
    {[fn |-> "SmithingRecipe::match_self",
      recipe |-> [base |-> b, addition |-> a, result |-> r],
      base |-> bi, addition |-> ai, done |-> FALSE, ret |-> Nothing] :
        b \in SmithingIngredients, a \in SmithingIngredients,
        r \in ResultStacks, bi \in CatalogItems, ai \in CatalogItems}

\* the counts a stonecutting descriptor configures
StonecuttingCounts == {1, 2, 64}

StonecuttingCalls ==
    {[fn |-> "StonecuttingRecipe::match_self",
      recipe |-> [ingredient |-> ing, result |-> r, count |-> n],
      item |-> i, done |-> FALSE, ret |-> Nothing] :
        ing \in SmithingIngredients, r \in CatalogItems, n \in StonecuttingCounts,
        i \in CatalogItems}

\* the tag registries the recipe calls are tried under
SampleTagRegistries ==
    {[t \in Tags |-> {}], [t \in Tags |-> {"wet_sponge"}], [t \in Tags |-> {"glass", "wet_sponge"}]}

InitMatch ==
    /\ NoWindow
    /\ registry = RecipeRegistry_new
    /\ \/ call \in IngredientCalls /\ tag_registry \in TagRegistries
       \/ call \in ShapelessCalls \cup SmithingCalls /\ tag_registry \in SampleTagRegistries
       \/ call \in StonecuttingCalls /\ tag_registry \in SampleTagRegistries

Return(v) ==
    /\ call' = [call EXCEPT !.done = TRUE, !.ret = v]
    /\ UNCHANGED <<winvars, registry, tag_registry>>

ApplyIngredientMatches ==
    /\ call.fn = "Ingredient::matches" /\ ~call.done
    /\ Return(Ingredient_matches(call.ingredient, call.item, tag_registry))

ApplyShapelessMatches ==
    /\ call.fn = "ShapelessRecipe::matches" /\ ~call.done
    /\ Return(ShapelessRecipe_matches(call.recipe, call.items, tag_registry))

ApplySmithingMatchSelf ==
    /\ call.fn = "SmithingRecipe::match_self" /\ ~call.done
    /\ Return(SmithingRecipe_match_self(call.recipe, call.base, call.addition, tag_registry))

ApplyStonecuttingMatchSelf ==
    /\ call.fn = "StonecuttingRecipe::match_self" /\ ~call.done
    /\ Return(StonecuttingRecipe_match_self(call.recipe, call.item, tag_registry))

NextMatch ==
    \/ ApplyIngredientMatches
    \/ ApplyShapelessMatches
    \/ ApplySmithingMatchSelf
    \/ ApplyStonecuttingMatchSelf

SpecMatch == InitMatch /\ [][NextMatch]_vars

(***************************************************************************)
(* Directories of descriptors                                              *)
(***************************************************************************)
Glass == One(ItemOnly("glass"))

SpongesOrGlass == Many(<<TagOnly("minecraft:sponges"), ItemOnly("glass")>>)

\* two cooking descriptors that both accept glass; the first leaves
\* "cookingtime" out
CookingBodies ==
    {[group |-> None, ingredient |-> Glass, result |-> "tnt", experience |-> 1,
      cookingtime |-> Nothing],
     [group |-> None, ingredient |-> SpongesOrGlass, result |-> "wet_sponge",
      experience |-> 2, cookingtime |-> Some(50)]}

StonecuttingBodies ==
    {[group |-> None, ingredient |-> Glass, result |-> "tnt", count |-> 2],
     [group |-> None, ingredient |-> SpongesOrGlass, result |-> "wet_sponge", count |-> 1]}

SmithingBodies ==
    {[group |-> None, base |-> Glass, addition |-> One(ItemOnly("tnt")),
      result |-> ResultStack("tnt", 1, None)],
     [group |-> None, base |-> SpongesOrGlass,
      addition |-> Many(<<ItemOnly("tnt"), TagOnly("minecraft:sponges")>>),
      result |-> ResultStack("glass", 2, 3)]}

ShapelessBodies ==
    {[group |-> None, ingredients |-> Many(<<ItemOnly("glass"), ItemOnly("wet_sponge")>>),
      result |-> ResultStack("tnt", 1, None)],
     [group |-> None, ingredients |-> Many(<<TagOnly("minecraft:sponges"), ItemOnly("glass")>>),
      result |-> ResultStack("glass", 2, 3)]}

ShapedBodies ==
    {[group |-> None, pattern |-> <<"# ", " #">>, key |-> [c \in {"#"} |-> Glass],
      result |-> ResultStack("tnt", 1, None)]}

Descriptor(type, body) == [wellformed |-> TRUE, type |-> type, body |-> body]

File(raw) == [listed |-> TRUE, readable |-> TRUE, raw |-> raw]

NoBody == [group |-> None]

GoodFiles ==
    {File(Descriptor(t, b)) : t \in CookingTypes, b \in CookingBodies}
        \cup {File(Descriptor("minecraft:stonecutting", b)) : b \in StonecuttingBodies}
        \cup {File(Descriptor("minecraft:smithing", b)) : b \in SmithingBodies}
        \cup {File(Descriptor("minecraft:crafting_shapeless", b)) : b \in ShapelessBodies}
        \cup {File(Descriptor("minecraft:crafting_shaped", b)) : b \in ShapedBodies}
        \cup {File(Descriptor("minecraft:crafting_special_armordye", NoBody))}

\* an entry read_dir fails on, a file that cannot be read, a file that is
\* not a descriptor, a descriptor of no known type
BadFiles ==
    {[listed |-> FALSE, readable |-> FALSE, raw |-> Descriptor("", NoBody)],
     [listed |-> TRUE, readable |-> FALSE, raw |-> Descriptor("", NoBody)],
     File([wellformed |-> FALSE, type |-> "", body |-> NoBody]),
     File(Descriptor("minecraft:brewing", NoBody))}

Dirs ==
    {[readable |-> FALSE, entries |-> <<>>]}
        \cup {[readable |-> TRUE, entries |-> es] :
                 es \in SeqsUpTo(GoodFiles \cup BadFiles, MaxDirEntries)}

\* the registries from_dir builds from the directories it accepts
Loaded == {from_dir(d)[1] : d \in {x \in Dirs : from_dir(x) # Nothing}}

\* the empty registry and the registries of one descriptor
Preloaded ==
    {RecipeRegistry_new}
        \cup {from_dir([readable |-> TRUE, entries |-> <<f>>])[1] : f \in GoodFiles}

(***************************************************************************)
(* Loading, applied to a registry and a directory drawn at the start       *)
(***************************************************************************)
LoadCalls ==
    [fn : {"add_from_dir", "from_dir"}, dir : Dirs, done : {FALSE}, ok : {FALSE},
     ret : {Nothing}, before : {RecipeRegistry_new}]

InitLoad ==
    /\ NoWindow
    /\ registry \in Preloaded
    /\ tag_registry = [t \in Tags |-> {}]
    /\ call \in LoadCalls

\* self.add_from_dir(dir) on the registry
AddFromDir ==
    /\ call.fn = "add_from_dir" /\ ~call.done
    /\ \E r \in {add_from_dir(registry, call.dir)} :
          /\ registry' = r.reg
          /\ call' = [call EXCEPT !.done = TRUE, !.ok = r.ok, !.before = registry]
    /\ UNCHANGED <<winvars, tag_registry>>

\* registry = RecipeRegistry::from_dir(dir)?: an Err leaves the registry as it was
FromDir ==
    /\ call.fn = "from_dir" /\ ~call.done
    /\ \E r \in {from_dir(call.dir)} :
          /\ registry' = IF r # Nothing THEN r[1] ELSE registry
          /\ call' = [call EXCEPT !.done = TRUE, !.ok = (r # Nothing), !.ret = r,
                                  !.before = registry]
    /\ UNCHANGED <<winvars, tag_registry>>

NextLoad == AddFromDir \/ FromDir

SpecLoad == InitLoad /\ [][NextLoad]_vars

(***************************************************************************)
(* Queries, applied to a loaded registry and an input drawn at the start   *)
(***************************************************************************)
QueryCalls ==
    [fn : {"match_blasting", "match_campfire_cooking", "match_smelting", "match_smoking",
           "match_stonecutting"},
     args : [1..1 -> CatalogItems], done : {FALSE}, ret : {Nothing}]
        \cup [fn : {"match_smithing"}, args : [1..2 -> CatalogItems],
              done : {FALSE}, ret : {Nothing}]
        \cup [fn : {"match_shapeless"}, args : SeqsUpTo(CatalogItems, MaxItems),
              done : {FALSE}, ret : {Nothing}]

InitQuery ==
    /\ NoWindow
    /\ registry \in Loaded
    /\ tag_registry \in SampleTagRegistries
    /\ call \in QueryCalls

Asked(fn) == call.fn = fn /\ ~call.done

MatchBlasting ==
    Asked("match_blasting") /\ Return(match_blasting(registry, call.args[1], tag_registry))

MatchCampfireCooking ==
    Asked("match_campfire_cooking")
        /\ Return(match_campfire_cooking(registry, call.args[1], tag_registry))

MatchShapeless ==
    Asked("match_shapeless") /\ Return(match_shapeless(registry, call.args, tag_registry))

MatchSmelting ==
    Asked("match_smelting") /\ Return(match_smelting(registry, call.args[1], tag_registry))

MatchSmithing ==
    Asked("match_smithing")
        /\ Return(match_smithing(registry, call.args[1], call.args[2], tag_registry))

MatchSmoking ==
    Asked("match_smoking") /\ Return(match_smoking(registry, call.args[1], tag_registry))

MatchStonecutting ==
    Asked("match_stonecutting")
        /\ Return(match_stonecutting(registry, call.args[1], tag_registry))

NextQuery ==
    \/ MatchBlasting
    \/ MatchCampfireCooking
    \/ MatchShapeless
    \/ MatchSmelting
    \/ MatchSmithing
    \/ MatchSmoking
    \/ MatchStonecutting

SpecQuery == InitQuery /\ [][NextQuery]_vars

(***************************************************************************)
(* Properties of the click dispatcher (checked under Spec)                 *)
(***************************************************************************)
Handled == result # "none"

\* C1: if handle_click_window returns an error, none of the four outbound
\* messages has been sent, whatever the mode, button and slot index.
C1_ErrorSendsNothing == (Handled /\ result = "err") => sent = <<>>

\* C2: whenever handle_click_window returns success it has sent, in this
\* order and nothing else: the confirmation with the packet's window id and
\* (16-bit) action number and accepted = true; the slot message for the
\* packet's slot with the slot's contents after the operation, iff the slot
\* index is >= 0; the cursor message; the full-window message.
C2_SuccessSendsFixedSequence ==
    result = "ok" =>
        LET n == Len(sent)
        IN /\ n = (IF pkt.slot >= 0 THEN 4 ELSE 3)
           /\ sent[1].type = "confirm"
           /\ sent[1].window_id = pkt.window_id
           /\ sent[1].action_number \in -32768..32767
           /\ (sent[1].action_number - pkt.action_number) % 65536 = 0
           /\ sent[1].accepted = TRUE
           /\ pkt.slot >= 0 =>
                  /\ sent[2].type = "set_slot"
                  /\ sent[2].slot = pkt.slot
                  /\ sent[2].item = slots[pkt.slot + 1]
           /\ sent[n - 1].type = "set_cursor_slot"
           /\ sent[n - 1].item = cursor_item
           /\ sent[n].type = "window_items"
           /\ sent[n].items = slots

\* a successful click on a slot that changed the slot, with an action number
\* that the i16 cast wraps
C2_Witness ==
    /\ result = "ok"
    /\ pkt.slot >= 0
    /\ pkt.action_number = 40000
    /\ Len(sent) = 4
    /\ slots # before.slots

\* C3: a mode-4 (drop) gesture on an in-bounds slot removes the slot's item,
\* returns success and sends the fixed confirmation sequence, for every
\* button value.
C3_DropIsRecognized ==
    (Handled /\ pkt.mode = 4 /\ pkt.slot >= 0 /\ pkt.slot < Len(before.slots)) =>
        /\ result = "ok"
        /\ slots[pkt.slot + 1] = Empty
        /\ Len(sent) = 4

(***************************************************************************)
(* Properties of the creative-set handler (checked under SpecCreative)     *)
(***************************************************************************)
\* C4 as stated: handle_creative_inventory_action returns an error and
\* leaves every slot unchanged whenever the game mode is not Creative, and
\* also whenever the window is not the Player-only window, for every slot
\* value in the packet.
C4_ErrorOutsideCreativeOrPlayerWindow ==
    (Handled /\ (gamemode # "Creative" \/ backing # "Player")) =>
        (result = "err" /\ slots = before.slots)

\* C4 amended: the handler returns an error and leaves every slot unchanged
\* whenever the game mode is not Creative (for every slot value), and
\* whenever the window is not the Player-only window and the slot is not -1;
\* with slot -1 in Creative mode on such a window it returns success, and
\* still changes no slot.
C4_ErrorOutsideCreativeOrPlayerWindowUnlessNoSlot ==
    Handled =>
        /\ (gamemode # "Creative" \/ (backing # "Player" /\ pkt.slot # -1)) =>
               (result = "err" /\ slots = before.slots)
        /\ (gamemode = "Creative" /\ backing # "Player" /\ pkt.slot = -1) =>
               (result = "ok" /\ slots = before.slots)

\* a Creative player setting an in-bounds slot of an external container
C4_Witness ==
    /\ Handled
    /\ gamemode = "Creative"
    /\ backing = "Generic9x3"
    /\ pkt.slot = 0
    /\ pkt.clicked_item # before.slots[1]
    /\ result = "err"

\* C5: in Creative mode a creative-set action with slot = -1 returns success
\* and changes no slot; with an in-bounds slot >= 0 on the Player-only
\* window it sets exactly that slot to the packet's item and changes no
\* other slot.
C5_CreativeSetFrame ==
    (Handled /\ gamemode = "Creative") =>
        /\ pkt.slot = -1 => (result = "ok" /\ slots = before.slots)
        /\ (pkt.slot >= 0 /\ pkt.slot < Len(before.slots) /\ backing = "Player") =>
               /\ result = "ok"
               /\ slots[pkt.slot + 1] = pkt.clicked_item
               /\ \A i \in 1..Len(slots) : i # pkt.slot + 1 => slots[i] = before.slots[i]
               /\ Len(slots) = Len(before.slots)

\* a Creative player discarding a held stack with slot = -1
C5_Witness ==
    /\ Handled
    /\ gamemode = "Creative"
    /\ pkt.slot = -1
    /\ pkt.clicked_item # Empty
    /\ \E i \in 1..Len(slots) : slots[i] # Empty
    /\ result = "ok"

(***************************************************************************)
(* Properties of the matching functions (checked under SpecMatch)          *)
(***************************************************************************)
Returned(fn) == call.fn = fn /\ call.done

\* component c accepts item i under the tag registry of the state
Accepts(c, i) ==
    \/ (c.item # None /\ c.item = i)
    \/ (c.tag # None /\ i \in tag_registry[c.tag])

\* each supplied item, in order, takes the first alternative not yet taken
\* that accepts it: f[k] is the alternative item k takes
TakesFirstFree(alts, items, f) ==
    \A k \in 1..Len(items) :
        LET taken == {f[j] : j \in 1..(k - 1)}
        IN /\ f[k] \notin taken
           /\ Accepts(alts[f[k]], items[k])
           /\ \A j \in 1..(f[k] - 1) : j \in taken \/ ~Accepts(alts[j], items[k])

\* C8: ShapelessRecipe::matches is true iff every supplied item, in the given
\* order, can consume the first not-yet-consumed alternative it satisfies;
\* alternatives left over do not prevent a match.  So for ingredients {A, B}:
\* [A, B], [A] and [] match, [A, B, C] does not, and with a single
\* A-alternative [A, A] does not.
C8_ShapelessConsumesInOrder ==
    Returned("ShapelessRecipe::matches") =>
        LET alts == call.recipe.ingredients.cs
            items == call.items
            AB == <<ItemOnly("glass"), ItemOnly("wet_sponge")>>
        IN /\ call.ret =
                  (\E f \in [1..Len(items) -> 1..Len(alts)] : TakesFirstFree(alts, items, f))
           /\ (alts = AB /\ items = <<"glass", "wet_sponge">>) => call.ret
           /\ (alts = AB /\ items = <<"glass">>) => call.ret
           /\ items = <<>> => call.ret
           /\ (alts = AB /\ items = <<"glass", "wet_sponge", "tnt">>) => ~call.ret
           /\ (alts = <<ItemOnly("glass")>> /\ items = <<"glass", "glass">>) => ~call.ret

\* fewer items than alternatives: [A] against {A, B}
C8_Witness ==
    /\ Returned("ShapelessRecipe::matches")
    /\ call.recipe.ingredients = Many(<<ItemOnly("glass"), ItemOnly("wet_sponge")>>)
    /\ call.items = <<"glass">>
    /\ call.ret

IngredientAccepts(ing, i) == \E k \in 1..Len(ing.cs) : Accepts(ing.cs[k], i)

\* C9: a smithing recipe matches (base, addition) iff the base ingredient
\* accepts the base item and the addition ingredient accepts the addition
\* item; a pair whose items each fail their own position does not match even
\* when each would satisfy the other position; the output is the result
\* stack's item alone.
C9_SmithingPositions ==
    Returned("SmithingRecipe::match_self") =>
        LET r == call.recipe
            own == IngredientAccepts(r.base, call.base)
                       /\ IngredientAccepts(r.addition, call.addition)
        IN /\ (call.ret # Nothing) = own
           /\ own => call.ret = <<r.result.item>>
           /\ (~IngredientAccepts(r.base, call.base)
                   /\ ~IngredientAccepts(r.addition, call.addition)) => call.ret = Nothing

\* the two items would match with their positions exchanged, and do not match
C9_Witness ==
    /\ Returned("SmithingRecipe::match_self")
    /\ IngredientAccepts(call.recipe.base, call.addition)
    /\ IngredientAccepts(call.recipe.addition, call.base)
    /\ ~IngredientAccepts(call.recipe.base, call.base)
    /\ ~IngredientAccepts(call.recipe.addition, call.addition)
    /\ call.ret = Nothing

\* C10: Ingredient.matches(item) is true iff at least one of its components
\* matches, a component matching iff its item field is present and equals
\* the item or its tag field is present and the registry has the item under
\* the tag; a component with neither field matches nothing; a single
\* component with item X and no tag accepts X and rejects every other item
\* whatever the registry contains.
C10_IngredientAnyComponent ==
    Returned("Ingredient::matches") =>
        LET ing == call.ingredient
            i == call.item
        IN /\ call.ret = (\E k \in 1..Len(ing.cs) : Accepts(ing.cs[k], i))
           /\ (\A k \in 1..Len(ing.cs) : ing.cs[k] = [item |-> None, tag |-> None])
                  => ~call.ret
           /\ (ing.kind = "One" /\ ing.cs[1].item # None /\ ing.cs[1].tag = None)
                  => call.ret = (i = ing.cs[1].item)

\* an alternative set whose first component rejects the item and whose
\* second accepts it by tag alone
C10_Witness ==
    /\ Returned("Ingredient::matches")
    /\ call.ingredient.kind = "Many"
    /\ Len(call.ingredient.cs) = 2
    /\ ~Accepts(call.ingredient.cs[1], call.item)
    /\ call.ingredient.cs[2].item = None
    /\ Accepts(call.ingredient.cs[2], call.item)
    /\ call.ret

(***************************************************************************)
(* Properties of the registry                                              *)
(***************************************************************************)
\* the recipes of list L that accept the input, by the test given per recipe
Earliest(M) == CHOOSE k \in M : \A j \in M : k <= j

\* a shapeless recipe accepts the items when each, in order, finds a free
\* alternative
ShapelessAccepts(r, items) ==
    \E f \in [1..Len(items) -> 1..Len(r.ingredients.cs)] :
        TakesFirstFree(r.ingredients.cs, items, f)

\* the positions of the asked kind's list whose recipe accepts the input
Matching(fn, L) ==
    CASE fn = "match_smithing" ->
             {k \in 1..Len(L) : /\ IngredientAccepts(L[k].base, call.args[1])
                                /\ IngredientAccepts(L[k].addition, call.args[2])}
      [] fn = "match_shapeless" -> {k \in 1..Len(L) : ShapelessAccepts(L[k], call.args)}
      [] OTHER -> {k \in 1..Len(L) : IngredientAccepts(L[k].ingredient, call.args[1])}

\* what a query derives from the recipe it answers with
Derived(fn, r) ==
    CASE fn = "match_smithing" -> r.result.item
      [] fn = "match_shapeless" -> r.result
      [] fn = "match_stonecutting" -> [item |-> r.result, count |-> r.count, damage |-> None]
      [] OTHER -> <<r.result, r.experience>>

\* the list a query scans
Scanned(fn) ==
    CASE fn = "match_blasting" -> registry.blast
      [] fn = "match_campfire_cooking" -> registry.camp
      [] fn = "match_shapeless" -> registry.shapeless
      [] fn = "match_smelting" -> registry.smelt
      [] fn = "match_smithing" -> registry.smith
      [] fn = "match_smoking" -> registry.smoke
      [] fn = "match_stonecutting" -> registry.stone

\* C6: each per-kind query returns the derived output of the earliest
\* inserted recipe of its kind that accepts the input, and none iff no recipe
\* of the kind accepts it; the answer is a function of that kind's list
\* alone, so recipes of other kinds do not influence it, and of two accepting
\* recipes the one loaded first wins.
C6_FirstLoadedRecipeWins ==
    (call.done /\ call.fn \in {"match_blasting", "match_campfire_cooking", "match_shapeless",
                               "match_smelting", "match_smithing", "match_smoking",
                               "match_stonecutting"}) =>
        LET L == Scanned(call.fn)
            M == Matching(call.fn, L)
        IN /\ (call.ret = Nothing) = (M = {})
           /\ M # {} => call.ret = Some(Derived(call.fn, L[Earliest(M)]))

\* two smelting recipes with different outputs both accept the input, and
\* the one loaded first answers
C6_Witness ==
    /\ Returned("match_smelting")
    /\ Len(registry.smelt) = 2
    /\ IngredientAccepts(registry.smelt[1].ingredient, call.args[1])
    /\ IngredientAccepts(registry.smelt[2].ingredient, call.args[1])
    /\ registry.smelt[1].result # registry.smelt[2].result
    /\ call.ret = Some(<<registry.smelt[1].result, registry.smelt[1].experience>>)

\* C7: when loading from a directory fails on an entry, no partly loaded
\* registry is observable: from_dir returns only an error, and the registry
\* add_from_dir was called on holds exactly the recipes it held before.
C7_FailedLoadLeavesRegistryAsBefore ==
    (call.done /\ call.fn \in {"add_from_dir", "from_dir"} /\ ~call.ok) =>
        /\ registry = call.before
        /\ call.ret = Nothing

\* C11: when a stonecutting recipe's ingredient accepts the input item, the
\* returned stack has the recipe's result item, a count equal to the
\* recipe's configured count and damage unset; when the ingredient rejects
\* the item, nothing is returned.
C11_StonecuttingStack ==
    Returned("StonecuttingRecipe::match_self") =>
        LET r == call.recipe
        IN IF IngredientAccepts(r.ingredient, call.item)
           THEN /\ Len(call.ret) = 1
                /\ call.ret[1].item = r.result
                /\ call.ret[1].count = r.count
                /\ call.ret[1].damage = None
           ELSE call.ret = Nothing

\* a recipe configured with a count of 64 whose ingredient accepts the item
\* by tag
C11_Witness ==
    /\ Returned("StonecuttingRecipe::match_self")
    /\ call.recipe.count = 64
    /\ call.recipe.ingredient = One(TagOnly("minecraft:sponges"))
    /\ call.item \in tag_registry["minecraft:sponges"]
    /\ call.ret = Some([item |-> call.recipe.result, count |-> 64, damage |-> None])

(***************************************************************************)
(* Properties of the paint gestures                                        *)
(***************************************************************************)
\* C12: an end-paint gesture (mode 5, button 2 or 6) issued while the Window
\* has no open paint session returns an error, leaves the cursor item and
\* every slot unchanged, leaves the interaction state Idle and sends no
\* outbound message.
C12_EndPaintWithoutSession ==
    (Handled /\ pkt.mode = 5 /\ pkt.button \in {2, 6} /\ before.paint = Idle) =>
        /\ result = "err"
        /\ cursor_item = before.cursor
        /\ slots = before.slots
        /\ paint_state = Idle
        /\ sent = <<>>

\* an end-paint on an idle window whose cursor holds a stack and whose
\* packet names a slot of the window
C12_Witness ==
    /\ Handled
    /\ pkt.mode = 5
    /\ pkt.button = 6
    /\ pkt.slot = 0
    /\ before.paint = Idle
    /\ before.cursor # Empty
    /\ result = "err"

\* the paint gesture a mode-5 packet's button stands for
PaintGestureOf(p) ==
    CASE p.button \in {0, 4} -> "begin"
      [] p.button \in {1, 5} -> "add"
      [] p.button \in {2, 6} -> "end"
      [] OTHER -> "none"

\* the operation returned Ok: the confirmation follows it and nothing else
OpSucceeded == sent # <<>>

\* C13: over every sequence of paint gestures the interaction state is
\* exactly Idle or Painting, and a session is open iff a begin-paint has
\* occurred with no successful end-paint after it.  Stated gesture by
\* gesture, from a window that starts Idle: begin-paint leaves a fresh
\* session with an empty touched set, whether or not one was open;
\* add-paint-slot fails with no session open and otherwise keeps the session,
\* appending the slot unless it is already touched; end-paint succeeds
\* exactly when a session is open and then leaves Idle, whatever it placed; a
\* mode-5 packet that is none of these leaves the state as it was.
C13_PaintSessionLifecycle ==
    /\ paint_state = Idle \/ paint_state.kind = "Painting"
    /\ ~Handled => paint_state = Idle
    /\ (Handled /\ pkt.mode = 5) =>
          LET old == before.paint
              slot == AsUsize(pkt.slot)
              gesture == PaintGestureOf(pkt)
          IN /\ gesture = "begin" =>
                    paint_state = Painting(IF pkt.button = 0 THEN "even" ELSE "single", <<>>)
             /\ gesture = "add" =>
                    IF old = Idle
                    THEN ~OpSucceeded /\ result = "err" /\ paint_state = Idle
                    ELSE /\ OpSucceeded
                         /\ paint_state =
                                Painting(old.dir, IF InSeq(slot, old.touched) THEN old.touched
                                                  ELSE Append(old.touched, slot))
             /\ gesture = "end" =>
                    /\ OpSucceeded = (old.kind = "Painting")
                    /\ paint_state = Idle
             /\ gesture = "none" => (result = "err" /\ paint_state = old)

\* begin, add a slot, begin again: the second begin discards the touched slot
C13_Witness ==
    /\ gestures = 3
    /\ pkt.mode = 5
    /\ pkt.button = 4
    /\ before.paint = Painting("even", <<0>>)
    /\ paint_state = Painting("single", <<>>)

(***************************************************************************)
(* Order of the items supplied to a shapeless recipe                       *)
(***************************************************************************)
Reorderings(n) == {f \in [1..n -> 1..n] : \A a, b \in 1..n : f[a] = f[b] => a = b}

Permuted(items, f) == [k \in 1..Len(items) |-> items[f[k]]]

\* C14: ShapelessRecipe::matches treats the supplied items as a multiset: for
\* every recipe, alternatives that overlap included, and every sequence of
\* supplied items, it returns the same result for every permutation of the
\* sequence.
C14_ShapelessOrderIndependent ==
    Returned("ShapelessRecipe::matches") =>
        \A f \in Reorderings(Len(call.items)) :
            ShapelessRecipe_matches(call.recipe, Permuted(call.items, f), tag_registry)
                = call.ret

\* the items component c accepts under the tag registry of the state
AcceptedBy(c) == {i \in CatalogItems : Accepts(c, i)}

\* any two alternatives accept the same items or have no item in common
AlternativesApart(alts) ==
    \A a, b \in 1..Len(alts) :
        AcceptedBy(alts[a]) = AcceptedBy(alts[b])
            \/ AcceptedBy(alts[a]) \cap AcceptedBy(alts[b]) = {}

\* C14, amended: for a shapeless recipe of which any two alternatives accept
\* the same items or have no item in common, ShapelessRecipe::matches
\* returns the same result for every permutation of the supplied items.
\* (With alternatives that overlap in part, the result depends on the order.)
C14_ShapelessOrderIndependentWhenApart ==
    (Returned("ShapelessRecipe::matches") /\ AlternativesApart(call.recipe.ingredients.cs)) =>
        \A f \in Reorderings(Len(call.items)) :
            ShapelessRecipe_matches(call.recipe, Permuted(call.items, f), tag_registry)
                = call.ret

\* two alternatives with no item in common, one of them a tag, matched by two
\* different items supplied in the order opposite to the alternatives'
C14_Witness ==
    /\ Returned("ShapelessRecipe::matches")
    /\ call.recipe.ingredients.cs = <<TagOnly("minecraft:sponges"), ItemOnly("glass")>>
    /\ tag_registry["minecraft:sponges"] = {"wet_sponge"}
    /\ call.items = <<"glass", "wet_sponge">>
    /\ call.ret

(***************************************************************************)
(* Effects of a gesture on the window and on the entity's events           *)
(***************************************************************************)
\* C15: whenever handle_click_window returns an error, the Window's slot
\* contents, cursor item and paint-session state are the same as before the
\* gesture and no drop event has been inserted for the entity.
C15_ErrorHasNoSideEffect ==
    (Handled /\ result = "err") =>
        /\ slots = before.slots
        /\ cursor_item = before.cursor
        /\ paint_state = before.paint
        /\ events = <<>>

\* C16: a mode-4 drop gesture inserts exactly one DropItemEvent, carrying the
\* numeric identity of the removed item, iff the targeted slot was non-empty
\* before the gesture; on an empty slot, or when drop_item fails (slot -1 or
\* out of bounds), no event is inserted; gestures of any other mode never
\* insert a drop event.
C16_DropEventIffSlotHeldItem ==
    Handled =>
        IF /\ pkt.mode = 4
           /\ pkt.slot >= 0 /\ pkt.slot < Len(before.slots)
           /\ before.slots[pkt.slot + 1] # Empty
        THEN events = <<[event |-> "DropItemEvent",
                         item |-> ItemId(before.slots[pkt.slot + 1].item)]>>
        ELSE events = <<>>

\* a drop on a slot holding diamonds: one event carrying the diamond's id
C16_Witness ==
    /\ Handled
    /\ pkt.mode = 4
    /\ pkt.slot = 0
    /\ before.slots[1].item = "diamond"
    /\ slots[1] = Empty
    /\ events = <<[event |-> "DropItemEvent", item |-> 686]>>

(***************************************************************************)
(* Routing of gestures by mode and button                                  *)
(***************************************************************************)
\* the Window operation the routing table gives a (mode, button) pair,
\* "none" for a pair outside the table
Routed(mode, button) ==
    CASE mode = 0 /\ button = 0 -> "left_click"
      [] mode = 0 /\ button = 1 -> "right_click"
      [] mode = 1 -> "shift_click"
      [] mode = 5 /\ button = 0 -> "begin_left_mouse_paint"
      [] mode = 5 /\ button = 4 -> "begin_right_mouse_paint"
      [] mode = 5 /\ button \in {1, 5} -> "add_paint_slot"
      [] mode = 5 /\ button \in {2, 6} -> "end_paint"
      [] OTHER -> "none"

\* C17: handle_click_window invokes exactly one Window operation per
\* non-drop gesture, selected by (mode, button): (0,0) left_click, (0,1)
\* right_click, (1, any) shift_click, (5,0) begin even-paint, (5,4) begin
\* single-paint, (5,1) and (5,5) add_paint_slot, (5,2) and (5,6) end_paint;
\* every other combination returns an error without invoking any click or
\* paint operation.
C17_RoutingByModeAndButton ==
    (Handled /\ pkt.mode # 4) =>
        IF Routed(pkt.mode, pkt.button) = "none"
        THEN result = "err" /\ invoked = <<>>
        ELSE invoked = <<Routed(pkt.mode, pkt.button)>>

\* a shift click sent with a button other than 0 and 1 reaches shift_click
C17_Witness ==
    /\ Handled
    /\ pkt.mode = 1
    /\ pkt.button = 3
    /\ pkt.slot = 0
    /\ invoked = <<"shift_click">>
    /\ result = "ok"
====
